---- MODULE Spec2Model ----
(***************************************************************************)
(* MaddyBot: the memory-augmented conversation core (src/agent_core.py).   *)
(* Python strings are TLA+ strings, read character by character with       *)
(* SubSeq; a dict is a function on its set of keys; None-or-value fields   *)
(* are sequences of length 0 (None) or 1.                                  *)
(***************************************************************************)
EXTENDS Integers, Sequences, FiniteSets, Bags, TLC

(***************************************************************************)
(* Python str primitives                                                   *)
(***************************************************************************)
UpperLetters == "ABCDEFGHIJKLMNOPQRSTUVWXYZ"

LowerLetters == "abcdefghijklmnopqrstuvwxyz"

At(s, i) == SubSeq(s, i, i)

From(s, i) == SubSeq(s, i, Len(s))

IsUpper(c) == \E i \in 1..26 : At(UpperLetters, i) = c

IsLowerCh(c) == \E i \in 1..26 : At(LowerLetters, i) = c

\* [A-Za-z]
IsAlpha(c) == IsUpper(c) \/ IsLowerCh(c)

\* \s, and the characters str.strip() and str.split() remove
IsSpace(c) == c \in {" ", "\n", "\t", "\r"}

LowerCh(c) ==
    IF IsUpper(c)
    THEN At(LowerLetters, CHOOSE i \in 1..26 : At(UpperLetters, i) = c)
    ELSE c

RECURSIVE lower(_)
lower(s) ==
    IF Len(s) <= 1 THEN LowerCh(s)
    ELSE lower(SubSeq(s, 1, Len(s) \div 2)) \o lower(From(s, Len(s) \div 2 + 1))

\* s[i:] begins with t (i is 1-based)
StartsAt(s, t, i) == i + Len(t) - 1 <= Len(s) /\ SubSeq(s, i, i + Len(t) - 1) = t

\* t in s
Contains(s, t) == \E i \in 1..(Len(s) + 1) : StartsAt(s, t, i)

\* s.find(t), 0-based, -1 when absent
find(s, t) ==
    IF Contains(s, t)
    THEN (CHOOSE i \in 1..(Len(s) + 1) :
            StartsAt(s, t, i) /\ \A j \in 1..(i - 1) : ~StartsAt(s, t, j)) - 1
    ELSE -1

RECURSIVE lstrip(_)
lstrip(s) == IF s # "" /\ IsSpace(At(s, 1)) THEN lstrip(From(s, 2)) ELSE s

RECURSIVE rstrip(_)
rstrip(s) ==
    IF s # "" /\ IsSpace(At(s, Len(s))) THEN rstrip(SubSeq(s, 1, Len(s) - 1)) ELSE s

strip(s) == rstrip(lstrip(s))

\* s.split()[-1]: the last whitespace-delimited token ("" when there is none)
RECURSIVE LastTokenFrom(_)
LastTokenFrom(s) ==
    IF s = "" \/ IsSpace(At(s, Len(s)))
    THEN ""
    ELSE LastTokenFrom(SubSeq(s, 1, Len(s) - 1)) \o At(s, Len(s))

LastToken(s) == LastTokenFrom(rstrip(s))

\* s.split(sep, 1)[1]: what follows the first sep
AfterFirst(s, sep) == From(s, find(s, sep) + Len(sep) + 1)

\* s.split("\n")
RECURSIVE split_lines(_)
split_lines(s) ==
    IF ~Contains(s, "\n")
    THEN <<s>>
    ELSE <<SubSeq(s, 1, find(s, "\n"))>> \o split_lines(From(s, find(s, "\n") + 2))

\* "\n".join(parts), and join with any separator
RECURSIVE join(_, _)
join(sep, parts) ==
    IF parts = <<>> THEN ""
    ELSE IF Len(parts) = 1 THEN parts[1]
    ELSE parts[1] \o sep \o join(sep, Tail(parts))

(***************************************************************************)
(* Regular expressions of _extract_user_info                               *)
(***************************************************************************)
\* Body(v), with v evaluated once however often Body uses it
Let(v, Body(_)) == CHOOSE r \in {Body(x) : x \in {v}} : TRUE

\* the least element of a non-empty set of integers
Least(S) == CHOOSE a \in S : \A b \in S : a <= b

Greatest(S) == CHOOSE a \in S : \A b \in S : a >= b

\* length of the longest run of characters of the class at s[i:]
RECURSIVE AlphaRun(_, _)
AlphaRun(s, i) == IF i <= Len(s) /\ IsAlpha(At(s, i)) THEN 1 + AlphaRun(s, i + 1) ELSE 0

RECURSIVE SpaceRun(_, _)
SpaceRun(s, i) == IF i <= Len(s) /\ IsSpace(At(s, i)) THEN 1 + SpaceRun(s, i + 1) ELSE 0

\* $ : at the end, or just before a final newline
AtEnd(s, i) == i = Len(s) + 1 \/ (i = Len(s) /\ At(s, i) = "\n")

\* (?:\s|$|\.|,|!) at s[i:]: the number of characters it consumes, -1 if no match
Terminator(s, i) ==
    IF i <= Len(s) /\ IsSpace(At(s, i)) THEN 1
    ELSE IF AtEnd(s, i) THEN 0
    ELSE IF i <= Len(s) /\ At(s, i) \in {".", ",", "!"} THEN 1
    ELSE -1

\* ([A-Za-z\s]+?)(?:\s|$|\.|,|!) at s[i:]: the lazy group takes the fewest
\* characters that let the terminator match; the end (exclusive) of the whole, 0 if none
LazyNameEnd(s, i) ==
    LET ok(n) == (\A j \in i..(i + n - 1) : IsAlpha(At(s, j)) \/ IsSpace(At(s, j)))
                 /\ Terminator(s, i + n) >= 0
    IN Let({n \in 1..(Len(s) - i + 1) : ok(n)},
           LAMBDA lens : IF lens = {} THEN 0
                         ELSE Let(Least(lens), LAMBDA n : i + n + Terminator(s, i + n)))

\* trigger \s+ ([A-Za-z\s]+?) terminator at s[i:] for one trigger: \s+ is greedy and
\* gives characters back; the end (exclusive) of the match, 0 if none
TriggerMatchEnd(s, i, trigger) ==
    IF ~StartsAt(s, trigger, i) THEN 0
    ELSE Let({LazyNameEnd(s, i + Len(trigger) + k) : k \in 1..SpaceRun(s, i + Len(trigger))}
                \ {0},
             LAMBDA ends : IF ends = {} THEN 0
                           ELSE LazyNameEnd(s, i + Len(trigger)
                                  + Greatest({k \in 1..SpaceRun(s, i + Len(trigger)) :
                                              LazyNameEnd(s, i + Len(trigger) + k) > 0})))

\* the alternation at s[i:]: the first trigger, in order, that lets the rest match
RECURSIVE AltMatchEnd(_, _, _)
AltMatchEnd(s, i, triggers) ==
    IF triggers = <<>> THEN 0
    ELSE Let(TriggerMatchEnd(s, i, Head(triggers)),
             LAMBDA e : IF e > 0 THEN e ELSE AltMatchEnd(s, i, Tail(triggers)))

\* re.search(pattern, s).group(0), as <<text>>; <<>> when there is no match
re_search_name(s, triggers) ==
    Let({i \in 1..Len(s) : AltMatchEnd(s, i, triggers) > 0},
        LAMBDA starts :
            IF starts = {} THEN <<>>
            ELSE Let(Least(starts),
                     LAMBDA i : <<SubSeq(s, i, AltMatchEnd(s, i, triggers) - 1)>>))

\* [A-Za-z]+(?:\s+[A-Za-z]+){0,max} at s[i:], greedy: the end (exclusive)
RECURSIVE WordsEnd(_, _, _)
WordsEnd(s, i, max) ==
    Let(i + AlphaRun(s, i),
        LAMBDA e : Let(SpaceRun(s, e),
                       LAMBDA sp : IF max > 0 /\ sp > 0 /\ AlphaRun(s, e + sp) > 0
                                   THEN WordsEnd(s, e + sp, max - 1)
                                   ELSE e))

\* re.search(r"([A-Za-z]+(?:\s+[A-Za-z]+)*)", s).group(1), as <<text>> or <<>>
re_search_words(s) ==
    Let({i \in 1..Len(s) : IsAlpha(At(s, i))},
        LAMBDA starts :
            IF starts = {} THEN <<>>
            ELSE Let(Least(starts), LAMBDA i : <<SubSeq(s, i, WordsEnd(s, i, Len(s)) - 1)>>))

\* re.match(r"^([A-Za-z]+(?:\s+[A-Za-z]+){0,2})", s).group(1), as <<text>> or <<>>
re_match_words3(s) ==
    IF s # "" /\ IsAlpha(At(s, 1)) THEN <<SubSeq(s, 1, WordsEnd(s, 1, 2) - 1)>> ELSE <<>>

(***************************************************************************)
(* dict                                                                    *)
(***************************************************************************)
EmptyDict == [k \in {} |-> ""]

NameDict(name) == [k \in {"name"} |-> name]

\* d.update(e)
update(d, e) ==
    [k \in (DOMAIN d) \cup (DOMAIN e) |-> IF k \in DOMAIN e THEN e[k] ELSE d[k]]

\* d.get("name"), "" standing for the falsy None
get_name(d) == IF "name" \in DOMAIN d THEN d["name"] ELSE ""

(***************************************************************************)
(* MaddyBotAgent._extract_user_info                                        *)
(***************************************************************************)
name_patterns ==
    << <<"my name is", "i am", "i'm", "call me", "save my name as", "remember my name as">>,
       <<"name is", "name's">> >>

phrases == <<"save my name as", "remember my name as", "my name is", "i am", "i'm", "call me">>

\* name_match.group(1).strip() when len(name) > 1, "" when there is no match or one
\* character
Accepted(name_match) ==
    IF name_match = <<>> THEN ""
    ELSE Let(strip(name_match[1]), LAMBDA name : IF Len(name) > 1 THEN name ELSE "")

\* one round of the loop over name_patterns: the name found with this pattern, "" if none
PatternName(message, message_lower, triggers) ==
    Let(re_search_name(message_lower, triggers),
        LAMBDA match :
            IF match = <<>> THEN ""
            ELSE Let(find(message_lower, match[1]),
                     LAMBDA start_pos :
                         IF start_pos = -1 THEN ""
                         ELSE Accepted(re_search_words(
                                  From(message, start_pos + Len(LastToken(match[1])) + 1)))))

RECURSIVE PatternsName(_, _, _)
PatternsName(message, message_lower, patterns) ==
    IF patterns = <<>> THEN ""
    ELSE Let(PatternName(message, message_lower, Head(patterns)),
             LAMBDA name : IF name # "" THEN name
                           ELSE PatternsName(message, message_lower, Tail(patterns)))

\* the fallback loop over phrases
RECURSIVE PhrasesName(_, _, _)
PhrasesName(message, message_lower, ps) ==
    IF ps = <<>> THEN ""
    ELSE Let(IF Contains(message_lower, Head(ps))
             THEN Accepted(re_match_words3(strip(
                      From(message, find(message_lower, Head(ps)) + Len(Head(ps)) + 1))))
             ELSE "",
             LAMBDA name : IF name # "" THEN name
                           ELSE PhrasesName(message, message_lower, Tail(ps)))

_extract_user_info(message) ==
    Let(lower(message),
        LAMBDA message_lower :
            Let(PatternsName(message, message_lower, name_patterns),
                LAMBDA primary :
                    Let(IF primary # "" THEN primary
                        ELSE PhrasesName(message, message_lower, phrases),
                        LAMBDA name : IF name # "" THEN NameDict(name) ELSE EmptyDict)))

(***************************************************************************)
(* Bounds of the model and the inputs drawn by the actions                 *)
(***************************************************************************)
\* calls made in one session when every remote call may fail
MaxCalls == 1

\* calls made in one session when only the completion calls may fail
MaxWindowCalls == 4

\* calls made in one session when _store_user_info is also called on its own
MaxMethodCalls == 2

\* /api/chat requests handled in one session
MaxChatCalls == 1

\* construction attempts of a session that fail after the embedding client is built
MaxEmbeddings == 1

\* the calls of a session whose messages hold braces
MaxTemplateCalls == 2

\* the calls of a session whose background threads are scheduled fairly
MaxFairCalls == 2

\* the exchanges made one at a time in a session in which two requests then run at
\* the same time
MaxWriterCalls == 2

\* the remote calls that may fail
AllFaults == {"construct", "search", "add", "completion", "vision"}

CompletionFaults == {"completion", "vision"}

\* what a session is given: the messages and image lists of its calls (an image is
\* "ok", valid base64, "none", no base64, or "bad", base64 that does not decode), the
\* response.content its completion calls return, and the remote calls that may fail
Session ==
    [maxCalls |-> MaxCalls, faults |-> AllFaults,
     messages |-> {"hi", "Call me Sam."}, replies |-> {"ok", "", " "},
     images |-> {<<>>, <<"ok">>, <<"none", "bad">>}]

\* a longer session in which the store and the embedding service are healthy
WindowSession ==
    [maxCalls |-> MaxWindowCalls, faults |-> CompletionFaults,
     messages |-> {"hi"}, replies |-> {"ok", " "},
     images |-> {<<>>, <<"ok">>}]

\* a session in which _store_user_info is also called on its own
MethodSession ==
    [maxCalls |-> MaxMethodCalls, faults |-> {"construct", "add"},
     messages |-> {"Call me Sam. What's 2+2?"}, replies |-> {"ok"},
     images |-> {<<>>, <<"ok">>}]

\* the dicts _store_user_info is called with on its own
Infos == {EmptyDict, NameDict("Al")}

\* a healthy session whose messages hold braces, which the episodic documents written
\* for them hold too
TemplateSession ==
    [maxCalls |-> MaxTemplateCalls, faults |-> {},
     messages |-> {"{{x}}", "{x}"}, replies |-> {"ok"},
     images |-> {<<>>, <<"ok">>}]

\* a session whose store and embedding service are available
FairSession ==
    [maxCalls |-> MaxFairCalls, faults |-> CompletionFaults,
     messages |-> {"hi"}, replies |-> {"ok", " "},
     images |-> {<<>>, <<"ok">>}]

\* the exchanges made one at a time before two requests run at the same time
WriterSession ==
    [maxCalls |-> MaxWriterCalls, faults |-> {},
     messages |-> {"hi"}, replies |-> {"ok"},
     images |-> {<<>>}]

Sessions ==
    {Session, WindowSession, MethodSession, TemplateSession, FairSession, WriterSession}

\* the messages _extract_user_info is called with on its own: a trigger phrase, the
\* name tokens and what ends them, and messages without a trigger phrase
ExtractCases ==
    [trigger : {"My name is", "save my name as", "Call me"},
     name : {"Maadhu", "John Smith", "Sam"},
     end : {"", "."}]

CaseMessage(c) == c.trigger \o " " \o c.name \o c.end

Untriggered == {"hello there", "hi"}

ExtractMessages == {CaseMessage(c) : c \in ExtractCases} \cup Untriggered

\* the two collections found on disk when the session starts
Persisted ==
    {[user_info |-> EmptyBag, memory |-> EmptyBag],
     [user_info |-> SetToBag({"name: Al", "topic\nName: Bo"}),
      memory |-> SetToBag({"User: hi\nAssistant: ok", "User: bye\nAssistant: ok"})]}

(***************************************************************************)
(* State                                                                   *)
(***************************************************************************)
VARIABLES
    chat_history,       \* self.chat_history.messages
    embeddings,         \* self.embeddings: 0 is None, n > 0 the n-th client constructed
    vectorstore,        \* self.vectorstore: 0 is None, else the instance
    user_info_store,    \* self.user_info_store: 0 is None, else the instance
    user_info_cache,    \* self.user_info_cache: <<>> is None, <<d>> the dict d
    user_info_loaded,   \* self.user_info_loaded
    memory_docs,        \* collection "maddybot-memory": bag of page_content
    user_info_docs,     \* collection "maddybot-user-info": bag of page_content
    profile_searches,   \* similarity searches issued against the profile collection
    threads,            \* background threads started and not yet run: bag of [message, reply]
    started,            \* background threads started so far
    appended,           \* every turn ever appended to chat_history, in order
    n_calls,            \* calls made on the agent so far
    frame,              \* the call in progress on the request thread: its position and locals
    result,             \* the call that ended last, as its caller saw it, until the next starts
    agent,              \* src/app.py: agent is not None
    http,               \* src/app.py: the /api/chat request being handled and its response
    loaders,            \* threads inside _load_user_info at the same time: position and locals
    writers             \* request threads updating the window at the same time: position and locals

vars == <<chat_history, embeddings, vectorstore, user_info_store, user_info_cache,
          user_info_loaded, memory_docs, user_info_docs, profile_searches, threads,
          started, appended, n_calls, frame, result, agent, http, loaders, writers>>

\* the agent and the collections as one record, the operand of every method below
St ==
    [chat_history |-> chat_history, embeddings |-> embeddings, vectorstore |-> vectorstore,
     user_info_store |-> user_info_store, user_info_cache |-> user_info_cache,
     user_info_loaded |-> user_info_loaded, memory_docs |-> memory_docs,
     user_info_docs |-> user_info_docs, profile_searches |-> profile_searches,
     threads |-> threads, started |-> started, appended |-> appended]

max_history_messages == 6

HumanMessage(content) == [type |-> "human", content |-> content]

AIMessage(content) == [type |-> "ai", content |-> content]

\* messages[-n:]
LastN(messages, n) ==
    IF Len(messages) > n THEN SubSeq(messages, Len(messages) - n + 1, Len(messages))
    ELSE messages

(***************************************************************************)
(* The collections: add_documents and similarity_search                    *)
(***************************************************************************)
BagAdd(bag, doc) == bag (+) SetToBag({doc})

BagRemove(bag, doc) == bag (-) SetToBag({doc})

Min(a, b) == IF a < b THEN a ELSE b

\* every nearest-first answer the store can give: n documents of the collection in some
\* order, the ranking being the embedding's
RECURSIVE Rankings(_, _)
Rankings(bag, n) ==
    IF n = 0 THEN {<<>>}
    ELSE UNION {{<<doc>> \o rest : rest \in Rankings(BagRemove(bag, doc), n - 1)} :
                doc \in BagToSet(bag)}

\* similarity_search(query, k) on a collection
SearchResults(bag, k) == Rankings(bag, Min(k, BagCardinality(bag)))

\* str(e) of the exception a store or embedding call raises
store_error == "store unavailable"

(***************************************************************************)
(* MaddyBotAgent: the memory methods.  Every method takes the state record *)
(* and the outcomes of the remote calls it makes, and returns the state    *)
(* after it, what it returns, whether it raises, and the failures it met.  *)
(***************************************************************************)
\* a variant that slices from the front: messages[:max_history_messages]
_get_recent_history_oldest(s) ==
    LET messages == s.chat_history
    IN IF Len(messages) > max_history_messages
       THEN SubSeq(messages, 1, max_history_messages)
       ELSE messages

_get_recent_history(s) ==
    LET messages == s.chat_history
    IN IF Len(messages) > max_history_messages
       THEN LastN(messages, max_history_messages)
       ELSE messages

\* fail names the constructor that raises: "embeddings", "vectorstore",
\* "user_info_store", or "ok" when none does
_initialize_vectorstore(s, fail) ==
    IF s.vectorstore # 0 THEN [s |-> s, raised |-> FALSE]
    ELSE IF fail = "embeddings" THEN [s |-> s, raised |-> TRUE]
    ELSE LET s1 == [s EXCEPT !.embeddings = @ + 1]
         IN IF fail = "vectorstore" THEN [s |-> s1, raised |-> TRUE]
            ELSE LET s2 == [s1 EXCEPT !.vectorstore = 1]
                 IN IF fail = "user_info_store" THEN [s |-> s2, raised |-> TRUE]
                    ELSE [s |-> [s2 EXCEPT !.user_info_store = 1], raised |-> FALSE]

\* the inner loop over the lines of one document: the name of the first line that
\* holds "name:" and a non-empty value, "" if there is none
RECURSIVE LinesName(_)
LinesName(lines) ==
    IF lines = <<>> THEN ""
    ELSE LET line == Head(lines)
             name == strip(AfterFirst(line, ":"))
         IN IF Contains(lower(line), "name:") /\ name # ""
            THEN name
            ELSE LinesName(Tail(lines))

\* the outer loop over the documents returned: break leaves the inner loop only, so
\* every later document that holds a name assigns the cache entry again
RECURSIVE LoadNames(_, _)
LoadNames(cache, results) ==
    IF results = <<>> THEN cache
    ELSE LET content == Head(results)
             name == IF Contains(lower(content), "name:")
                     THEN LinesName(split_lines(content)) ELSE ""
         IN LoadNames(IF name # "" THEN update(cache, NameDict(name)) ELSE cache,
                      Tail(results))

\* a variant that sets user_info_loaded inside the try block, after the search
_load_user_info_retries(s, env) ==
    IF s.user_info_loaded
    THEN [s |-> s, ret |-> s.user_info_cache, raised |-> FALSE, faults |-> {}]
    ELSE LET s0 == [s EXCEPT !.user_info_cache = <<EmptyDict>>]
             i == _initialize_vectorstore(s0, env.init)
             searched == ~i.raised /\ i.s.user_info_store # 0
             s1 == IF searched THEN [i.s EXCEPT !.profile_searches = @ + 1] ELSE i.s
             s2 == IF searched /\ env.search = "ok"
                   THEN [s1 EXCEPT !.user_info_cache = <<LoadNames(EmptyDict, env.results)>>,
                                   !.user_info_loaded = TRUE]
                   ELSE s1
         IN [s |-> s2, ret |-> s2.user_info_cache, raised |-> FALSE,
             faults |-> (IF i.raised THEN {"construct"} ELSE {})
                        \cup (IF searched /\ env.search = "raise" THEN {"profile_search"} ELSE {})]

\* env: [init: constructor that raises, search: "ok" | "raise", results: the documents]
_load_user_info(s, env) ==
    IF s.user_info_loaded
    THEN [s |-> s, ret |-> s.user_info_cache, raised |-> FALSE, faults |-> {}]
    ELSE LET s0 == [s EXCEPT !.user_info_cache = <<EmptyDict>>]
             i == _initialize_vectorstore(s0, env.init)
             searched == ~i.raised /\ i.s.user_info_store # 0
             s1 == IF searched THEN [i.s EXCEPT !.profile_searches = @ + 1] ELSE i.s
             s2 == IF searched /\ env.search = "ok"
                   THEN [s1 EXCEPT !.user_info_cache = <<LoadNames(EmptyDict, env.results)>>]
                   ELSE s1
             s3 == [s2 EXCEPT !.user_info_loaded = TRUE]
         IN [s |-> s3, ret |-> s3.user_info_cache, raised |-> FALSE,
             faults |-> (IF i.raised THEN {"construct"} ELSE {})
                        \cup (IF searched /\ env.search = "raise" THEN {"profile_search"} ELSE {})]

\* "\n".join(f"{key}: {value}"): "name" is the only key a dict of this program holds
content_parts(info) == IF "name" \in DOMAIN info THEN <<"name: " \o info["name"]>> ELSE <<>>

\* a variant without the early return on an empty dict
_store_user_info_always(s, info, env) ==
    LET i == _initialize_vectorstore(s, env.init)
    IN IF i.raised THEN [s |-> i.s, raised |-> FALSE, faults |-> {"construct"}]
       ELSE IF i.s.user_info_store = 0 THEN [s |-> i.s, raised |-> FALSE, faults |-> {}]
       ELSE IF env.add = "raise"
            THEN [s |-> i.s, raised |-> FALSE, faults |-> {"profile_add"}]
       ELSE LET s1 == [i.s EXCEPT !.user_info_docs =
                           BagAdd(@, join("\n", content_parts(info)))]
            IN IF s1.user_info_cache = <<>>
               THEN [s |-> s1, raised |-> FALSE, faults |-> {"cache_update"}]
               ELSE [s |-> [s1 EXCEPT !.user_info_cache = <<update(@[1], info)>>],
                     raised |-> FALSE, faults |-> {}]

\* a variant without the try block: what a store call raises leaves the method
_store_user_info_uncaught(s, info, env) ==
    IF info = EmptyDict THEN [s |-> s, raised |-> FALSE, faults |-> {}]
    ELSE LET i == _initialize_vectorstore(s, env.init)
         IN IF i.raised THEN [s |-> i.s, raised |-> TRUE, faults |-> {"construct"}]
            ELSE IF i.s.user_info_store = 0 THEN [s |-> i.s, raised |-> FALSE, faults |-> {}]
            ELSE IF env.add = "raise"
                 THEN [s |-> i.s, raised |-> TRUE, faults |-> {"profile_add"}]
            ELSE LET s1 == [i.s EXCEPT !.user_info_docs =
                                BagAdd(@, join("\n", content_parts(info)))]
                 IN IF s1.user_info_cache = <<>>
                    THEN [s |-> s1, raised |-> TRUE, faults |-> {"cache_update"}]
                    ELSE [s |-> [s1 EXCEPT !.user_info_cache = <<update(@[1], info)>>],
                          raised |-> FALSE, faults |-> {}]

\* env: [init: constructor that raises, add: "ok" | "raise"]
_store_user_info(s, info, env) ==
    IF info = EmptyDict THEN [s |-> s, raised |-> FALSE, faults |-> {}]
    ELSE LET i == _initialize_vectorstore(s, env.init)
         IN IF i.raised THEN [s |-> i.s, raised |-> FALSE, faults |-> {"construct"}]
            ELSE IF i.s.user_info_store = 0 THEN [s |-> i.s, raised |-> FALSE, faults |-> {}]
            ELSE IF env.add = "raise"
                 THEN [s |-> i.s, raised |-> FALSE, faults |-> {"profile_add"}]
            ELSE LET s1 == [i.s EXCEPT !.user_info_docs =
                                BagAdd(@, join("\n", content_parts(info)))]
                 IN IF s1.user_info_cache = <<>>
                    THEN \* None.update raises after the document is added; caught
                         [s |-> s1, raised |-> FALSE, faults |-> {"cache_update"}]
                    ELSE [s |-> [s1 EXCEPT !.user_info_cache = <<update(@[1], info)>>],
                          raised |-> FALSE, faults |-> {}]

memory_header == "\n\n--- Relevant Past Conversations ---\n"

\* a variant without the "if docs:" test: the header is returned for zero results too
_retrieve_relevant_memory_unchecked(s, query, k, env) ==
    LET i == _initialize_vectorstore(s, env.init)
    IN IF i.raised THEN [s |-> i.s, ret |-> "", raised |-> FALSE, faults |-> {"construct"}]
       ELSE IF i.s.vectorstore = 0
            THEN [s |-> i.s, ret |-> "", raised |-> FALSE, faults |-> {}]
       ELSE IF env.search = "raise"
            THEN [s |-> i.s, ret |-> "", raised |-> FALSE, faults |-> {"memory_search"}]
       ELSE [s |-> i.s, ret |-> memory_header \o join("\n\n---\n", env.results),
             raised |-> FALSE, faults |-> {}]

\* env: [init: constructor that raises, search: "ok" | "raise", results: the documents]
_retrieve_relevant_memory(s, query, k, env) ==
    LET i == _initialize_vectorstore(s, env.init)
    IN IF i.raised THEN [s |-> i.s, ret |-> "", raised |-> FALSE, faults |-> {"construct"}]
       ELSE IF i.s.vectorstore = 0
            THEN [s |-> i.s, ret |-> "", raised |-> FALSE, faults |-> {}]
       ELSE IF env.search = "raise"
            THEN [s |-> i.s, ret |-> "", raised |-> FALSE, faults |-> {"memory_search"}]
       ELSE IF env.results = <<>>
            THEN [s |-> i.s, ret |-> "", raised |-> FALSE, faults |-> {}]
       ELSE [s |-> i.s, ret |-> memory_header \o join("\n\n---\n", env.results),
             raised |-> FALSE, faults |-> {}]

\* a variant that keeps the document of the last exchange only
_store_interaction_replaces(s, user_message, assistant_reply, add) ==
    IF s.vectorstore = 0 THEN [s |-> s, raised |-> FALSE, faults |-> {}]
    ELSE IF add = "raise" THEN [s |-> s, raised |-> FALSE, faults |-> {"episodic_add"}]
    ELSE [s |-> [s EXCEPT !.memory_docs =
                    SetToBag({"User: " \o user_message \o "\nAssistant: " \o assistant_reply})],
          raised |-> FALSE, faults |-> {}]

\* add: "ok" | "raise"
_store_interaction(s, user_message, assistant_reply, add) ==
    IF s.vectorstore = 0 THEN [s |-> s, raised |-> FALSE, faults |-> {}]
    ELSE IF add = "raise" THEN [s |-> s, raised |-> FALSE, faults |-> {"episodic_add"}]
    ELSE [s |-> [s EXCEPT !.memory_docs =
                    BagAdd(@, "User: " \o user_message \o "\nAssistant: " \o assistant_reply)],
          raised |-> FALSE, faults |-> {}]

\* a variant in which the background thread records its exchange in the window too
store_async_appends(s, t, env) ==
    LET i == _initialize_vectorstore(s, env.init)
        r == IF i.raised THEN [s |-> i.s, raised |-> FALSE, faults |-> {"construct"}]
             ELSE IF i.s.vectorstore # 0
                  THEN _store_interaction(i.s, t.message, t.reply, env.add)
                  ELSE [s |-> i.s, raised |-> FALSE, faults |-> {}]
    IN [r EXCEPT !.s.chat_history = @ \o <<[type |-> "human", content |-> t.message],
                                           [type |-> "ai", content |-> t.reply]>>]

\* the body of a background thread t = [message, reply];
\* env: [init: constructor that raises, add: "ok" | "raise"]
store_async(s, t, env) ==
    LET i == _initialize_vectorstore(s, env.init)
    IN IF i.raised THEN [s |-> i.s, raised |-> FALSE, faults |-> {"construct"}]
       ELSE IF i.s.vectorstore # 0
            THEN _store_interaction(i.s, t.message, t.reply, env.add)
            ELSE [s |-> i.s, raised |-> FALSE, faults |-> {}]

(***************************************************************************)
(* MaddyBotAgent: the exchanges, cut at their remote calls                 *)
(***************************************************************************)
persona ==
    "You are MaddyBot, a helpful AI assistant. Be friendly, concise, and direct. "
    \o "Keep responses brief unless detailed explanation is requested."

name_binding(name) ==
    "\n\nIMPORTANT: The user's name is " \o name
    \o ". Always use this name when addressing them. Remember this name for future conversations."

fallback_reply == "I'm sorry, I couldn't generate a response. Please try again."

\* str(e) of the exception a completion call raises
llm_error == "timeout"

ToStr(n) == At("0123456789", n + 1)

\* the note the text-only retry puts before the message
images_note(images) ==
    "[User attached " \o ToStr(Len(images)) \o " image(s). Analyzing text content...]\n\n"

(***************************************************************************)
(* src/app.py chat: the request and the message composed from it.  A       *)
(* request holds the message field, the files as [name, content, success], *)
(* the images as the agent is given them, and the audio transcription;     *)
(* malformed is a JSON body that request.get_json() rejects                *)
(***************************************************************************)
images_hint == "\n[User has attached images. Please analyze them if the model supports vision.]"

\* metadata width x height of an image, "?" where the metadata has none
ImageSize(image) == IF image = "ok" THEN "8x8" ELSE "?x?"

RECURSIVE FileParts(_)
FileParts(files) ==
    IF files = <<>> THEN <<>>
    ELSE LET file_data == Head(files)
             text == file_data.content
         IN (IF file_data.success \/ text # ""
             THEN <<"\n[File: " \o file_data.name \o "]\n" \o text>> ELSE <<>>)
            \o FileParts(Tail(files))

ImageParts(images) ==
    [idx \in 1..Len(images) |->
        "\n[Image " \o ToStr(idx) \o " - " \o ImageSize(images[idx]) \o " pixels]"]

audio_transcription(request) == strip(request.audio)

context_parts(request) ==
    (IF request.files # <<>> THEN <<"--- Uploaded Files ---">> \o FileParts(request.files)
     ELSE <<>>)
    \o (IF request.images # <<>>
        THEN <<"\n--- Uploaded Images ---">> \o ImageParts(request.images) ELSE <<>>)
    \o (IF audio_transcription(request) # ""
        THEN <<"\n--- Audio Transcription ---",
               "\n[Transcribed audio: " \o audio_transcription(request) \o "]">>
        ELSE <<>>)

user_message(request) ==
    LET typed == strip(request.message)
        hinted == IF request.images # <<>> THEN typed \o images_hint ELSE typed
    IN IF audio_transcription(request) # "" /\ hinted = "" THEN audio_transcription(request)
       ELSE hinted

full_message(request) ==
    IF context_parts(request) # <<>>
    THEN IF user_message(request) # ""
         THEN user_message(request) \o "\n\n" \o join("\n", context_parts(request))
         ELSE join("\n", context_parts(request))
    ELSE user_message(request)

\* the requests the handler is given
ChatRequests ==
    [malformed : {FALSE}, message : {"", " hi "},
     files : {<<>>, <<[name |-> "a.pdf", content |-> "", success |-> FALSE]>>},
     images : {<<>>, <<"none">>, <<"ok">>}, audio : {"", "hey"}]
    \cup [malformed : {TRUE}, message : {""}, files : {<<>>}, images : {<<>>}, audio : {""}]

\* a session of /api/chat requests
ChatSession ==
    [maxCalls |-> MaxChatCalls, faults |-> {"construct", "completion", "vision"},
     messages |-> {full_message(r) : r \in ChatRequests}, replies |-> {"ok", " "},
     images |-> {r.images : r \in ChatRequests}]

\* every message a method of the agent is given in this model
KnownMessages ==
    UNION {B.messages \cup {images_note(i) \o m : i \in B.images, m \in B.messages} :
           B \in Sessions \cup {ChatSession}}
    \cup ExtractMessages

\* _extract_user_info on the known messages, computed once
ExtractedInfoTable == [m \in KnownMessages |-> _extract_user_info(m)]

ExtractedInfo(message) ==
    IF message \in KnownMessages THEN ExtractedInfoTable[message]
    ELSE _extract_user_info(message)

\* a variant without user_info.update: the cache follows the profile collection only
StoreFacts_when_stored(s, message, env) ==
    LET extracted_info == ExtractedInfo(message)
    IN IF extracted_info = EmptyDict THEN [s |-> s, raised |-> FALSE, faults |-> {}]
       ELSE _store_user_info(s, extracted_info, env)

\* extracted_info = self._extract_user_info(message); if extracted_info:
\* self._store_user_info(extracted_info); user_info.update(extracted_info).
\* user_info is the object _load_user_info returned, self.user_info_cache itself.
StoreFacts(s, message, env) ==
    LET extracted_info == ExtractedInfo(message)
    IN IF extracted_info = EmptyDict THEN [s |-> s, raised |-> FALSE, faults |-> {}]
       ELSE LET st == _store_user_info(s, extracted_info, env)
            IN IF st.raised THEN st
               ELSE [st EXCEPT !.s.user_info_cache = <<update(@[1], extracted_info)>>]

system_message(user_info, relevant_memory) ==
    persona
    \o (IF get_name(user_info) # "" THEN name_binding(user_info["name"]) ELSE "")
    \o (IF relevant_memory # "" THEN "\n\n" \o relevant_memory ELSE "")

\* the position of the first brace of s, 0 when it holds none
FirstBrace(s) ==
    LET braces == {i \in 1..Len(s) : At(s, i) \in {"{", "}"}}
    IN IF braces = {} THEN 0 ELSE Least(braces)

\* str(e) of the exception the prompt template raises on a field it is not given or
\* on a single brace
template_error == "Input to ChatPromptTemplate is missing variables"

\* ("system", system_message) makes system_message an f-string template, formatted
\* with the input of the chain: a doubled brace becomes a single one, {input} is
\* replaced by the message, and any other field or a single brace raises ({history},
\* which would render the list of turns, is not among the texts of the sessions)
RECURSIVE format(_, _)
format(template, input) ==
    LET i == FirstBrace(template)
    IN IF i = 0 THEN [raised |-> FALSE, text |-> template]
       ELSE IF StartsAt(template, "{{", i) \/ StartsAt(template, "}}", i)
       THEN LET rest == format(From(template, i + 2), input)
            IN [raised |-> rest.raised,
                text |-> SubSeq(template, 1, i) \o rest.text]
       ELSE IF StartsAt(template, "{input}", i)
       THEN LET rest == format(From(template, i + 7), input)
            IN [raised |-> rest.raised,
                text |-> SubSeq(template, 1, i - 1) \o input \o rest.text]
       ELSE [raised |-> TRUE, text |-> ""]

\* a variant that keeps one turn less than the capacity
Trim_short(messages) ==
    IF Len(messages) > max_history_messages
    THEN LastN(messages, max_history_messages - 1)
    ELSE messages

\* messages[-max_history_messages:] when the window is over its capacity
Trim(messages) ==
    IF Len(messages) > max_history_messages
    THEN LastN(messages, max_history_messages)
    ELSE messages

\* prompt_with_info, the template made of the locals of process_message in f, as
\* formatted when the chain is invoked
prompt_with_info(f) ==
    format(system_message(f.user_info[1], f.relevant_memory), f.message)

\* the messages of the text completion call; f holds the locals of process_message
TextPrompt(s, f) ==
    [system |-> f.template.text, history |-> _get_recent_history(s), input |-> f.message]

\* the completion call as the gateway saw it: what it was given and what it answered
TextCall(s, f, llm) ==
    [path |-> "text", raised |-> llm.raised, content |-> llm.content,
     prompt |-> TextPrompt(s, f)]

\* a variant that joins the background thread before it returns: the episodic
\* document is written by the time the reply is returned
Returned_joins(s, f, llm) ==
    LET content == llm.content
        reply == IF content = "" \/ strip(content) = "" THEN fallback_reply ELSE content
        turns == <<HumanMessage(f.message), AIMessage(reply)>>
        s1 == [s EXCEPT !.chat_history = Trim(@ \o turns),
                        !.appended = @ \o turns,
                        !.started = @ + 1]
    IN [s |-> _store_interaction(s1, f.message, reply, "ok").s,
        raised |-> FALSE, ret |-> reply, error |-> "",
        prompt |-> TextPrompt(s, f), call |-> TextCall(s, f, llm)]

\* process_message after a response: the reply, the window, the background thread
Returned(s, f, llm) ==
    LET content == llm.content
        reply == IF content = "" \/ strip(content) = "" THEN fallback_reply ELSE content
        turns == <<HumanMessage(f.message), AIMessage(reply)>>
    IN [s |-> [s EXCEPT !.chat_history = Trim(@ \o turns),
                        !.appended = @ \o turns,
                        !.threads = BagAdd(@, [message |-> f.message, reply |-> reply]),
                        !.started = @ + 1],
        raised |-> FALSE, ret |-> reply, error |-> "",
        prompt |-> TextPrompt(s, f), call |-> TextCall(s, f, llm)]

\* a variant that records the human turn before the completion is called
Complete_records_first(s, f, llm) ==
    IF llm.raised
    THEN [s |-> [s EXCEPT !.chat_history = @ \o <<HumanMessage(f.message)>>,
                          !.appended = @ \o <<HumanMessage(f.message)>>],
          raised |-> TRUE, ret |-> "", error |-> llm_error, faults |-> {"completion"},
          prompt |-> TextPrompt(s, f), call |-> TextCall(s, f, llm),
          calls |-> <<TextCall(s, f, llm)>>]
    ELSE Returned(s, f, llm)

\* process_message from the prompt on; llm: [raised, content]
Complete(s, f, llm) ==
    IF f.template.raised
    THEN [s |-> s, raised |-> TRUE, ret |-> "", error |-> template_error,
          faults |-> {"template"}, prompt |-> TextPrompt(s, f),
          call |-> TextCall(s, f, llm), calls |-> <<>>]
    ELSE IF llm.raised
    THEN [s |-> s, raised |-> TRUE, ret |-> "", error |-> llm_error,
          faults |-> {"completion"}, prompt |-> TextPrompt(s, f),
          call |-> TextCall(s, f, llm), calls |-> <<TextCall(s, f, llm)>>]
    ELSE Returned(s, f, llm)

\* base64.b64decode raises on the first image whose base64 does not decode; an image
\* without base64 is skipped
DecodeRaises(images) == \E i \in 1..Len(images) : images[i] = "bad"

\* the try block of process_message_with_media; v: [ctor: "ok" | "raise", llm: [raised, content]].
\* raised means the except clause runs, which retries through process_message
VisionCall(s, f, v) ==
    LET vision_messages ==
            (IF get_name(f.user_info[1]) # ""
             THEN <<[type |-> "system",
                     content |-> system_message(f.user_info[1], f.relevant_memory)]>>
             ELSE <<>>)
            \o _get_recent_history(s)
            \o <<[type |-> "human", content |-> f.message, images |-> f.images]>>
        invoked == v.ctor = "ok" /\ ~DecodeRaises(f.images)
        calls == IF invoked
                 THEN <<[path |-> "vision", raised |-> v.llm.raised, content |-> v.llm.content,
                         prompt |-> vision_messages]>>
                 ELSE <<>>
    IN IF invoked /\ ~v.llm.raised
       THEN LET reply == v.llm.content
                turns == <<HumanMessage(IF f.message # "" THEN f.message
                                        ELSE "[Image(s) attached]"),
                           AIMessage(reply)>>
            IN [s |-> [s EXCEPT !.chat_history = @ \o turns,
                                !.appended = @ \o turns,
                                !.threads = BagAdd(@, [message |-> IF f.message # ""
                                                                   THEN f.message
                                                                   ELSE "[Image(s)]",
                                                       reply |-> reply]),
                                !.started = @ + 1],
                raised |-> FALSE, ret |-> reply, prompt |-> vision_messages, calls |-> calls]
       ELSE [s |-> s, raised |-> TRUE, ret |-> "", prompt |-> vision_messages, calls |-> calls]

\* str(e) as the caller of the public method sees it, for an exception e raised in f
Wrapped(f, e) ==
    LET inner == IF f.fn = "process_message" THEN "Failed to process message: " \o e ELSE e
    IN IF f.op = "process_message_with_media"
       THEN "Failed to process message with media: " \o inner
       ELSE inner

(***************************************************************************)
(* The environment: the outcomes the remote calls of a step can have in    *)
(* the state it runs in; F is the set of remote calls that may fail, B the *)
(* session                                                                 *)
(***************************************************************************)
\* the constructor that raises when _initialize_vectorstore runs in s
InitOutcomes(s, F) ==
    IF s.vectorstore # 0 \/ "construct" \notin F THEN {"ok"}
    ELSE {"ok", "embeddings", "user_info_store"}
         \cup (IF s.embeddings < MaxEmbeddings THEN {"vectorstore"} ELSE {})

NoSearch(fail) == [init |-> fail, search |-> "ok", results |-> <<>>]

NoAdd(fail) == [init |-> fail, add |-> "ok"]

SearchEnvs(fail, docs, k, F) ==
    {[init |-> fail, search |-> "ok", results |-> r] : r \in SearchResults(docs, k)}
    \cup (IF "search" \in F THEN {[init |-> fail, search |-> "raise", results |-> <<>>]} ELSE {})

AddEnvs(fail, F) ==
    {NoAdd(fail)} \cup (IF "add" \in F THEN {[init |-> fail, add |-> "raise"]} ELSE {})

LoadEnvs(s, F) ==
    IF s.user_info_loaded THEN {NoSearch("ok")}
    ELSE UNION {LET i == _initialize_vectorstore(s, fail)
                IN IF i.raised \/ i.s.user_info_store = 0 THEN {NoSearch(fail)}
                   ELSE SearchEnvs(fail, i.s.user_info_docs, 5, F) :
                fail \in InitOutcomes(s, F)}

\* the outcomes open to a call of _store_user_info in s, whatever it is given
ProfileEnvs(s, F) ==
    UNION {LET i == _initialize_vectorstore(s, fail)
           IN IF i.raised \/ i.s.user_info_store = 0 THEN {NoAdd(fail)}
              ELSE AddEnvs(fail, F) :
           fail \in InitOutcomes(s, F)}

\* process_message calls _store_user_info only with a non-empty dict
StoreEnvs(s, info, F) == IF info = EmptyDict THEN {NoAdd("ok")} ELSE ProfileEnvs(s, F)

MemEnvs(s, k, F) ==
    UNION {LET i == _initialize_vectorstore(s, fail)
           IN IF i.raised \/ i.s.vectorstore = 0 THEN {NoSearch(fail)}
              ELSE SearchEnvs(fail, i.s.memory_docs, k, F) :
           fail \in InitOutcomes(s, F)}

AsyncEnvs(s, F) ==
    UNION {LET i == _initialize_vectorstore(s, fail)
           IN IF i.raised \/ i.s.vectorstore = 0 THEN {NoAdd(fail)}
              ELSE AddEnvs(fail, F) :
           fail \in InitOutcomes(s, F)}

LlmRaises == [raised |-> TRUE, content |-> ""]

LlmOutcomes(B) ==
    {[raised |-> FALSE, content |-> c] : c \in B.replies}
    \cup (IF "completion" \in B.faults THEN {LlmRaises} ELSE {})

\* the completion is called only when the constructor and the decoding succeed
VisionOutcomes(images, B) ==
    (IF DecodeRaises(images) THEN {[ctor |-> "ok", llm |-> LlmRaises]}
     ELSE {[ctor |-> "ok", llm |-> [raised |-> FALSE, content |-> c]] : c \in B.replies}
          \cup (IF "vision" \in B.faults THEN {[ctor |-> "ok", llm |-> LlmRaises]} ELSE {}))
    \cup (IF "vision" \in B.faults THEN {[ctor |-> "raise", llm |-> LlmRaises]} ELSE {})

(***************************************************************************)
(* The state machine                                                       *)
(***************************************************************************)
\* what a call is compared with when it ends: the state it started in
Snapshot(s) ==
    [chat_history |-> s.chat_history, memory_docs |-> s.memory_docs,
     user_info_docs |-> s.user_info_docs, user_info_cache |-> s.user_info_cache,
     started |-> s.started]

\* no call in progress.  op is the public method called and fn the method whose body
\* runs; message is fn's argument and arg the caller's
IdleFrame ==
    [pc |-> "idle", op |-> "", fn |-> "", arg |-> "", message |-> "", images |-> <<>>,
     user_info |-> <<>>, relevant_memory |-> "", mem |-> NoSearch("ok"),
     template |-> [raised |-> FALSE, text |-> ""], faults |-> {},
     completions |-> <<>>, text_calls |-> 0,
     entry |-> Snapshot([chat_history |-> <<>>, memory_docs |-> EmptyBag,
                         user_info_docs |-> EmptyBag, user_info_cache |-> <<>>,
                         started |-> 0])]

NoResult ==
    [op |-> "", message |-> "", images |-> <<>>, info |-> EmptyDict, raised |-> FALSE,
     ret |-> "", error |-> "", faults |-> {}, completions |-> <<>>, text_calls |-> 0,
     entry |-> IdleFrame.entry]

\* what the caller of the call in frame f sees when it ends
ResultOf(f, raised, ret, error, faults, completions) ==
    [op |-> f.op, message |-> f.arg, images |-> f.images, info |-> EmptyDict,
     raised |-> raised, ret |-> ret, error |-> error, faults |-> f.faults \cup faults,
     completions |-> f.completions \o completions, text_calls |-> f.text_calls,
     entry |-> f.entry]

\* no request handled yet
NoHttp == [pc |-> "none", request |-> <<>>, status |-> 0, reply |-> <<>>, escaped |-> FALSE]

\* the threads that may be inside _load_user_info at the same time
Loaders == {1, 2}

\* no thread has entered _load_user_info
NoLoaders ==
    [t \in Loaders |-> [pc |-> "out", results |-> <<>>, ret |-> <<>>,
                        assigned |-> FALSE, populated |-> FALSE, set |-> FALSE]]

\* the remote calls that may fail while threads race in _load_user_info
RaceFaults == {"construct", "search"}

\* the body of _initialize_vectorstore, run by a thread that found self.vectorstore
\* None when it tested it, whatever the attribute holds by now
construct(s, fail) ==
    IF fail = "embeddings" THEN [s |-> s, raised |-> TRUE]
    ELSE LET s1 == [s EXCEPT !.embeddings = @ + 1]
         IN IF fail = "vectorstore" THEN [s |-> s1, raised |-> TRUE]
            ELSE LET s2 == [s1 EXCEPT !.vectorstore = 1]
                 IN IF fail = "user_info_store" THEN [s |-> s2, raised |-> TRUE]
                    ELSE [s |-> [s2 EXCEPT !.user_info_store = 1], raised |-> FALSE]

\* the request threads that may be in process_message at the same time
Writers == {1, 2}

\* no thread has its response yet.  messages is the local of that name: the list the
\* window held when the thread read it, aliased while that list is still the window
NoWriters ==
    [t \in Writers |-> [pc |-> "out", message |-> "", reply |-> "", aliased |-> FALSE,
                        messages |-> <<>>, slice |-> <<>>]]

\* what the two requests ask and are answered
WriterExchange ==
    [t \in Writers |-> IF t = 1 THEN [message |-> "one", reply |-> "first"]
                       ELSE [message |-> "two", reply |-> "second"]]

Init ==
    /\ chat_history = <<>>
    /\ embeddings = 0
    /\ vectorstore = 0
    /\ user_info_store = 0
    /\ user_info_cache = <<>>
    /\ user_info_loaded = FALSE
    /\ \E p \in Persisted : memory_docs = p.memory /\ user_info_docs = p.user_info
    /\ profile_searches = 0
    /\ threads = EmptyBag
    /\ started = 0
    /\ appended = <<>>
    /\ n_calls = 0
    /\ frame = IdleFrame
    /\ result = NoResult
    /\ agent \in BOOLEAN
    /\ http = NoHttp
    /\ loaders = NoLoaders
    /\ writers = NoWriters

\* the state a step leaves
Becomes(s) ==
    /\ chat_history' = s.chat_history
    /\ embeddings' = s.embeddings
    /\ vectorstore' = s.vectorstore
    /\ user_info_store' = s.user_info_store
    /\ user_info_cache' = s.user_info_cache
    /\ user_info_loaded' = s.user_info_loaded
    /\ memory_docs' = s.memory_docs
    /\ user_info_docs' = s.user_info_docs
    /\ profile_searches' = s.profile_searches
    /\ threads' = s.threads
    /\ started' = s.started
    /\ appended' = s.appended

\* an exception leaves the method in frame and reaches the caller of the public method
Raise(s, e, faults, completions) ==
    /\ Becomes(s)
    /\ result' = ResultOf(frame, TRUE, "", Wrapped(frame, e), faults, completions)
    /\ frame' = IdleFrame

\* src/app.py calls agent.process_message(message) or
\* agent.process_message_with_media(message, images)
Request(B) ==
    /\ UNCHANGED <<agent, http, loaders, writers>>
    /\ frame.pc = "idle"
    /\ writers = NoWriters
    /\ agent /\ http.pc # "waiting"
    /\ n_calls < B.maxCalls
    /\ \E op \in {"process_message", "process_message_with_media"}, message \in B.messages :
         \E images \in IF op = "process_message" THEN {<<>>} ELSE B.images :
            frame' = [IdleFrame EXCEPT !.pc = "load", !.op = op, !.fn = op, !.arg = message,
                                       !.message = message, !.images = images,
                                       !.text_calls = IF op = "process_message" THEN 1 ELSE 0,
                                       !.entry = Snapshot(St)]
    /\ n_calls' = n_calls + 1
    /\ result' = NoResult
    /\ UNCHANGED <<chat_history, embeddings, vectorstore, user_info_store, user_info_cache,
                   user_info_loaded, memory_docs, user_info_docs, profile_searches, threads,
                   started, appended>>

\* user_info = self._load_user_info()
Load(B) ==
    /\ UNCHANGED <<agent, http, loaders, writers>>
    /\ frame.pc = "load"
    /\ \E env \in LoadEnvs(St, B.faults) :
         LET r == _load_user_info(St, env)
         IN IF r.raised THEN Raise(r.s, store_error, r.faults, <<>>)
            ELSE /\ Becomes(r.s)
                 /\ frame' = [frame EXCEPT !.pc = "facts", !.user_info = r.ret,
                                           !.faults = @ \cup r.faults]
                 /\ result' = result
    /\ n_calls' = n_calls

\* a variant that goes from the facts to the completion without the retrieval
Facts_skips_memory(B) ==
    /\ UNCHANGED <<agent, http, loaders, writers>>
    /\ frame.pc = "facts"
    /\ \E env \in StoreEnvs(St, ExtractedInfo(frame.message), B.faults) :
         LET r == StoreFacts(St, frame.message, env)
         IN IF r.raised THEN Raise(r.s, store_error, r.faults, <<>>)
            ELSE /\ Becomes(r.s)
                 /\ frame' = [frame EXCEPT !.pc = "completion",
                                           !.user_info = r.s.user_info_cache,
                                           !.faults = @ \cup r.faults]
                 /\ result' = result
    /\ n_calls' = n_calls

\* the facts of the message are extracted, stored and merged into user_info
Facts(B) ==
    /\ UNCHANGED <<agent, http, loaders, writers>>
    /\ frame.pc = "facts"
    /\ \E env \in StoreEnvs(St, ExtractedInfo(frame.message), B.faults) :
         LET r == StoreFacts(St, frame.message, env)
         IN IF r.raised THEN Raise(r.s, store_error, r.faults, <<>>)
            ELSE /\ Becomes(r.s)
                 /\ frame' = [frame EXCEPT !.pc = "memory", !.user_info = r.s.user_info_cache,
                                           !.faults = @ \cup r.faults]
                 /\ result' = result
    /\ n_calls' = n_calls

\* relevant_memory = self._retrieve_relevant_memory(message, k=2); then
\* process_message makes its prompt and goes on to its completion, and process_message_with_media to the
\* vision path when images are attached and into process_message(message) when not
Memory(B) ==
    /\ UNCHANGED <<agent, http, loaders, writers>>
    /\ frame.pc = "memory"
    /\ \E env \in MemEnvs(St, 2, B.faults) :
         LET r == _retrieve_relevant_memory(St, frame.message, 2, env)
             f == [frame EXCEPT !.relevant_memory = r.ret, !.mem = env,
                                !.faults = @ \cup r.faults]
         IN IF r.raised THEN Raise(r.s, store_error, r.faults, <<>>)
            ELSE /\ Becomes(r.s)
                 /\ frame' = IF f.fn = "process_message"
                             THEN [f EXCEPT !.pc = "completion",
                                            !.template = prompt_with_info(f)]
                             ELSE IF f.images # <<>> THEN [f EXCEPT !.pc = "vision"]
                             ELSE [f EXCEPT !.pc = "load", !.fn = "process_message",
                                            !.text_calls = @ + 1]
                 /\ result' = result
    /\ n_calls' = n_calls

\* a variant without the fallback: what the vision path raises reaches the caller
Vision_raises(B) ==
    /\ UNCHANGED <<agent, http, loaders, writers>>
    /\ frame.pc = "vision"
    /\ \E v \in VisionOutcomes(frame.images, B) :
         LET r == VisionCall(St, frame, v)
         IN IF r.raised
            THEN /\ Becomes(r.s)
                 /\ frame' = IdleFrame
                 /\ result' = ResultOf(frame, TRUE, "", Wrapped(frame, llm_error),
                                       {"vision"}, r.calls)
            ELSE /\ Becomes(r.s)
                 /\ frame' = IdleFrame
                 /\ result' = ResultOf(frame, FALSE, r.ret, "", {}, r.calls)
    /\ n_calls' = n_calls

\* the vision path: its reply is returned, or its exception starts
\* process_message(note + message)
Vision(B) ==
    /\ UNCHANGED <<agent, http, loaders, writers>>
    /\ frame.pc = "vision"
    /\ \E v \in VisionOutcomes(frame.images, B) :
         LET r == VisionCall(St, frame, v)
         IN /\ Becomes(r.s)
            /\ IF r.raised
               THEN /\ frame' = [frame EXCEPT !.pc = "load", !.fn = "process_message",
                                              !.message = images_note(frame.images) \o @,
                                              !.text_calls = @ + 1,
                                              !.faults = @ \cup {"vision"},
                                              !.completions = @ \o r.calls]
                    /\ result' = result
               ELSE /\ frame' = IdleFrame
                    /\ result' = ResultOf(frame, FALSE, r.ret, "", {}, r.calls)
    /\ n_calls' = n_calls

\* the completion call of process_message and everything after it
Completion(B) ==
    /\ UNCHANGED <<agent, http, loaders, writers>>
    /\ frame.pc = "completion"
    /\ \E llm \in LlmOutcomes(B) :
         LET r == Complete(St, frame, llm)
         IN IF r.raised THEN Raise(r.s, r.error, r.faults, r.calls)
            ELSE /\ Becomes(r.s)
                 /\ frame' = IdleFrame
                 /\ result' = ResultOf(frame, FALSE, r.ret, "", {}, <<r.call>>)
    /\ n_calls' = n_calls

\* one background thread runs store_async
StoreAsync(B) ==
    /\ UNCHANGED <<agent, http, loaders, writers>>
    /\ \E t \in BagToSet(threads) :
         \E env \in AsyncEnvs(St, B.faults) :
            LET r == store_async([St EXCEPT !.threads = BagRemove(@, t)], t, env)
            IN Becomes(r.s)
    /\ UNCHANGED <<n_calls, frame, result>>

\* self._store_user_info(info), called on its own between two exchanges
StoreUserInfo(B) ==
    /\ UNCHANGED <<agent, http, loaders, writers>>
    /\ frame.pc = "idle"
    /\ agent /\ http.pc # "waiting"
    /\ n_calls < B.maxCalls
    /\ \E info \in Infos, env \in ProfileEnvs(St, B.faults) :
         LET r == _store_user_info(St, info, env)
         IN /\ Becomes(r.s)
            /\ result' = [NoResult EXCEPT !.op = "_store_user_info", !.info = info,
                                          !.raised = r.raised, !.faults = r.faults,
                                          !.entry = Snapshot(St)]
    /\ n_calls' = n_calls + 1
    /\ frame' = frame

\* self._extract_user_info(message), called on its own
ExtractUserInfo ==
    /\ UNCHANGED <<agent, http, loaders, writers>>
    /\ frame.pc = "idle"
    /\ agent /\ http.pc # "waiting"
    /\ \E message \in ExtractMessages :
         result' = [NoResult EXCEPT !.op = "_extract_user_info", !.message = message,
                                    !.info = ExtractedInfo(message)]
    /\ UNCHANGED <<chat_history, embeddings, vectorstore, user_info_store, user_info_cache,
                   user_info_loaded, memory_docs, user_info_docs, profile_searches, threads,
                   started, appended, n_calls, frame>>

\* str(e) of the exception request.get_json() raises on a malformed body
bad_request == "400 Bad Request"

\* the response of the handler: jsonify({"reply": reply}), status
Response(request, status, reply) ==
    [pc |-> "done", request |-> <<request>>, status |-> status, reply |-> <<reply>>,
     escaped |-> FALSE]

\* a variant of the response without the try blocks: the exception leaves the handler
Answer_unguarded(request) ==
    IF result.raised
    THEN [pc |-> "done", request |-> <<request>>, status |-> 0, reply |-> <<>>,
          escaped |-> TRUE]
    ELSE Response(request, 200, result.ret)

\* chat after the agent's call: the reply, or the exception caught
Answer(request) ==
    IF result.raised
    THEN Response(request, 500, "I encountered an error processing your request: "
                                \o result.error \o ". Please try again.")
    ELSE Response(request, 200, result.ret)

\* chat up to the agent's call: the request is answered at once, or the agent is called
Chat(B) ==
    /\ frame.pc = "idle"
    /\ http.pc # "waiting"
    /\ n_calls < B.maxCalls
    /\ n_calls' = n_calls + 1
    /\ \E request \in ChatRequests :
         IF ~agent
         THEN /\ http' = Response(request, 500, "Error: Agent not initialized. Please set "
                             \o "GOOGLE_API_KEY or GEMINI_API_KEY in environment.")
              /\ UNCHANGED <<frame, result>>
         ELSE IF request.malformed
         THEN /\ http' = Response(request, 500, "I encountered an internal error: "
                                                \o bad_request \o ".")
              /\ UNCHANGED <<frame, result>>
         ELSE IF strip(full_message(request)) = ""
         THEN /\ http' = Response(request, 400,
                                  "I need a message, file, image, or audio to respond to.")
              /\ UNCHANGED <<frame, result>>
         ELSE LET op == IF request.images # <<>> THEN "process_message_with_media"
                        ELSE "process_message"
              IN /\ http' = [NoHttp EXCEPT !.pc = "waiting", !.request = <<request>>]
                 /\ frame' = [IdleFrame EXCEPT !.pc = "load", !.op = op, !.fn = op,
                                               !.arg = full_message(request),
                                               !.message = full_message(request),
                                               !.images = request.images,
                                               !.text_calls = IF op = "process_message"
                                                              THEN 1 ELSE 0,
                                               !.entry = Snapshot(St)]
                 /\ result' = NoResult
    /\ UNCHANGED <<chat_history, embeddings, vectorstore, user_info_store, user_info_cache,
                   user_info_loaded, memory_docs, user_info_docs, profile_searches, threads,
                   started, appended, agent, loaders, writers>>

\* chat from the return of the agent's call to the response
Respond ==
    /\ http.pc = "waiting"
    /\ frame.pc = "idle"
    /\ http' = Answer(http.request[1])
    /\ UNCHANGED <<chat_history, embeddings, vectorstore, user_info_store, user_info_cache,
                   user_info_loaded, memory_docs, user_info_docs, profile_searches, threads,
                   started, appended, n_calls, frame, result, agent, loaders, writers>>

\* what a step of thread t inside _load_user_info leaves: the agent s, and the
\* thread's position and locals l
LoaderStep(t, s, l) ==
    /\ Becomes(s)
    /\ loaders' = [loaders EXCEPT ![t] = l]
    /\ UNCHANGED <<n_calls, frame, result, agent, http, writers>>

\* if self.user_info_loaded: return self.user_info_cache
Enter(t) ==
    /\ agent
    /\ loaders[t].pc = "out"
    /\ LoaderStep(t, St, IF user_info_loaded
                         THEN [loaders[t] EXCEPT !.pc = "done", !.ret = user_info_cache]
                         ELSE [loaders[t] EXCEPT !.pc = "assign"])

\* self.user_info_cache = {}
AssignCache(t) ==
    /\ loaders[t].pc = "assign"
    /\ LoaderStep(t, [St EXCEPT !.user_info_cache = <<EmptyDict>>],
                  [loaders[t] EXCEPT !.pc = "init", !.assigned = TRUE])

\* self._initialize_vectorstore(): if self.vectorstore is None
TestStore(t) ==
    /\ loaders[t].pc = "init"
    /\ LoaderStep(t, St, [loaders[t] EXCEPT !.pc = IF vectorstore = 0 THEN "construct"
                                                   ELSE IF user_info_store # 0 THEN "search"
                                                   ELSE "flag"])

\* the constructors of _initialize_vectorstore; an exception is caught in _load_user_info
ConstructStore(t) ==
    /\ loaders[t].pc = "construct"
    /\ \E fail \in InitOutcomes([St EXCEPT !.vectorstore = 0], RaceFaults) :
         LET i == construct(St, fail)
         IN LoaderStep(t, i.s, [loaders[t] EXCEPT !.pc = IF ~i.raised /\ i.s.user_info_store # 0
                                                         THEN "search" ELSE "flag"])

\* results = self.user_info_store.similarity_search("user name information", k=5)
SearchProfile(t) ==
    /\ loaders[t].pc = "search"
    /\ \E env \in SearchEnvs("ok", user_info_docs, 5, RaceFaults) :
         LoaderStep(t, [St EXCEPT !.profile_searches = @ + 1],
                    IF env.search = "ok"
                    THEN [loaders[t] EXCEPT !.pc = "populate", !.results = env.results]
                    ELSE [loaders[t] EXCEPT !.pc = "flag"])

\* the loop over results: self.user_info_cache["name"] = name, on the dict the
\* attribute holds now
Populate(t) ==
    /\ loaders[t].pc = "populate"
    /\ LoaderStep(t, [St EXCEPT !.user_info_cache =
                                    <<LoadNames(@[1], loaders[t].results)>>],
                  [loaders[t] EXCEPT !.pc = "flag", !.populated = TRUE])

\* self.user_info_loaded = True
SetLoaded(t) ==
    /\ loaders[t].pc = "flag"
    /\ LoaderStep(t, [St EXCEPT !.user_info_loaded = TRUE],
                  [loaders[t] EXCEPT !.pc = "return", !.set = TRUE])

\* return self.user_info_cache
ReturnCache(t) ==
    /\ loaders[t].pc = "return"
    /\ LoaderStep(t, St, [loaders[t] EXCEPT !.pc = "done", !.ret = user_info_cache])

\* what a step of request thread t leaves: the agent s, the positions and locals w of
\* the threads
WriterStep(s, w) ==
    /\ Becomes(s)
    /\ writers' = w
    /\ UNCHANGED <<n_calls, frame, result, agent, http, loaders>>

\* response = chain.invoke(...); reply = response.content.  The requests that run at
\* the same time come after the exchanges made one at a time
Respond_to(t) ==
    /\ agent
    /\ frame.pc = "idle"
    /\ writers[t].pc = "out"
    /\ WriterStep(St, [writers EXCEPT ![t].pc = "human",
                                      ![t].message = WriterExchange[t].message,
                                      ![t].reply = WriterExchange[t].reply])

\* self.chat_history.add_message(HumanMessage(content=message)): appends to the list
\* the window is now
AddHuman(t) ==
    /\ writers[t].pc = "human"
    /\ WriterStep([St EXCEPT !.chat_history = @ \o <<HumanMessage(writers[t].message)>>,
                             !.appended = @ \o <<HumanMessage(writers[t].message)>>],
                  [writers EXCEPT ![t].pc = "ai"])

\* self.chat_history.add_message(AIMessage(content=reply))
AddAI(t) ==
    /\ writers[t].pc = "ai"
    /\ WriterStep([St EXCEPT !.chat_history = @ \o <<AIMessage(writers[t].reply)>>,
                             !.appended = @ \o <<AIMessage(writers[t].reply)>>],
                  [writers EXCEPT ![t].pc = "read"])

\* messages = self.chat_history.messages
ReadWindow(t) ==
    /\ writers[t].pc = "read"
    /\ WriterStep(St, [writers EXCEPT ![t].pc = "test", ![t].aliased = TRUE])

\* the list the local messages of thread t refers to
Local(t) == IF writers[t].aliased THEN chat_history ELSE writers[t].messages

\* if len(messages) > self.max_history_messages
TestLength(t) ==
    /\ writers[t].pc = "test"
    /\ WriterStep(St, [writers EXCEPT ![t].pc = IF Len(Local(t)) > max_history_messages
                                                THEN "slice" ELSE "start"])

\* messages[-self.max_history_messages:], a new list
SliceWindow(t) ==
    /\ writers[t].pc = "slice"
    /\ WriterStep(St, [writers EXCEPT ![t].pc = "assign",
                                      ![t].slice = LastN(Local(t), max_history_messages)])

\* self.chat_history.messages = the new list; the threads whose messages is the list
\* replaced keep that list as it is now
AssignWindow(t) ==
    /\ writers[t].pc = "assign"
    /\ WriterStep([St EXCEPT !.chat_history = writers[t].slice],
                  [u \in Writers |->
                     IF u = t THEN [writers[u] EXCEPT !.pc = "start", !.aliased = FALSE,
                                                      !.messages = <<>>]
                     ELSE IF writers[u].aliased
                     THEN [writers[u] EXCEPT !.aliased = FALSE, !.messages = chat_history]
                     ELSE writers[u]])

\* thread.start(); return reply
StartThread(t) ==
    /\ writers[t].pc = "start"
    /\ WriterStep([St EXCEPT !.threads = BagAdd(@, [message |-> writers[t].message,
                                                    reply |-> writers[t].reply]),
                             !.started = @ + 1],
                  [writers EXCEPT ![t].pc = "done", ![t].aliased = FALSE,
                                  ![t].messages = <<>>, ![t].slice = <<>>])

Next ==
    \/ Request(Session)
    \/ Load(Session)
    \/ Facts(Session)
    \/ Memory(Session)
    \/ Vision(Session)
    \/ Completion(Session)
    \/ StoreAsync(Session)

Spec == Init /\ [][Next]_vars

\* the request thread alone: the background threads started are left waiting
NextWindow ==
    \/ Request(WindowSession)
    \/ Load(WindowSession)
    \/ Facts(WindowSession)
    \/ Memory(WindowSession)
    \/ Vision(WindowSession)
    \/ Completion(WindowSession)

SpecWindow == Init /\ [][NextWindow]_vars

\* the exchanges, and _store_user_info and _extract_user_info called on their own
NextMethods ==
    \/ Request(MethodSession)
    \/ Load(MethodSession)
    \/ Facts(MethodSession)
    \/ Memory(MethodSession)
    \/ Vision(MethodSession)
    \/ Completion(MethodSession)
    \/ StoreUserInfo(MethodSession)
    \/ ExtractUserInfo

SpecMethods == Init /\ [][NextMethods]_vars

\* the /api/chat handler and the exchanges it starts, the background threads left
\* waiting
NextChat ==
    \/ Chat(ChatSession)
    \/ Load(ChatSession)
    \/ Facts(ChatSession)
    \/ Memory(ChatSession)
    \/ Vision(ChatSession)
    \/ Completion(ChatSession)
    \/ Respond

SpecChat == Init /\ [][NextChat]_vars

\* two request threads of the server calling _load_user_info on the same agent, one
\* statement at a time
NextRace ==
    \E t \in Loaders :
        \/ Enter(t)
        \/ AssignCache(t)
        \/ TestStore(t)
        \/ ConstructStore(t)
        \/ SearchProfile(t)
        \/ Populate(t)
        \/ SetLoaded(t)
        \/ ReturnCache(t)

SpecRace == Init /\ [][NextRace]_vars

\* exchanges whose messages hold braces, and their background threads
NextTemplate ==
    \/ Request(TemplateSession)
    \/ Load(TemplateSession)
    \/ Facts(TemplateSession)
    \/ Memory(TemplateSession)
    \/ Vision(TemplateSession)
    \/ Completion(TemplateSession)
    \/ StoreAsync(TemplateSession)

SpecTemplate == Init /\ [][NextTemplate]_vars

\* exchanges made one at a time, and then two request threads of the server in
\* process_message at the same time, from their response on, one statement at a time
NextWriters ==
    \/ Request(WriterSession)
    \/ Load(WriterSession)
    \/ Facts(WriterSession)
    \/ Memory(WriterSession)
    \/ Completion(WriterSession)
    \/ \E t \in Writers :
          \/ Respond_to(t)
          \/ AddHuman(t)
          \/ AddAI(t)
          \/ ReadWindow(t)
          \/ TestLength(t)
          \/ SliceWindow(t)
          \/ AssignWindow(t)
          \/ StartThread(t)

SpecWriters == Init /\ [][NextWriters]_vars

\* exchanges with an available store; thread.start() hands the background thread to
\* the scheduler, which runs every started thread in the end
NextFair ==
    \/ Request(FairSession)
    \/ Load(FairSession)
    \/ Facts(FairSession)
    \/ Memory(FairSession)
    \/ Vision(FairSession)
    \/ Completion(FairSession)
    \/ StoreAsync(FairSession)

SpecFair == Init /\ [][NextFair]_vars /\ WF_vars(StoreAsync(FairSession))

(***************************************************************************)
(* Properties.  A call has ended when no call is in progress and result    *)
(* holds what its caller saw; result.entry is the state the call began in. *)
(***************************************************************************)
Ended == frame.pc = "idle" /\ result.op \in {"process_message", "process_message_with_media"}

\* the last completion call the call made, text or vision
LastCompletion == result.completions[Len(result.completions)]

Completed == Ended /\ result.completions # <<>>

\* response.content is empty or whitespace only
Blank(content) == \A i \in 1..Len(content) : IsSpace(At(content, i))

\* C1: after any sequence of completed exchanges, text or vision, the window holds
\* at most max_history_messages turns, and they are the turns appended last
C1_WindowBounded ==
    /\ Len(chat_history) <= max_history_messages
    /\ \A i \in 1..Len(chat_history) :
          chat_history[i] = appended[Len(appended) - Len(chat_history) + i]

\* four vision exchanges have returned and the window holds all eight turns
C1_Overflow ==
    /\ frame.pc = "idle"
    /\ Len(chat_history) = 8
    /\ result.op = "process_message_with_media" /\ ~result.raised

\* C2: _get_recent_history returns min(max_history_messages, total) turns, the ones
\* appended last, in the order they were appended
C2_RecentIsLastAppended ==
    LET recent == _get_recent_history(St)
        n == Len(recent)
        total == Len(appended)
    IN /\ n <= max_history_messages
       /\ n = Min(max_history_messages, total)
       /\ \A i \in 1..n : recent[i] = appended[total - n + i]

\* more turns were appended than the window returns, the stored window is over its
\* capacity, and the oldest turn differs from the oldest turn returned
C2_Witness ==
    /\ Len(appended) > max_history_messages
    /\ Len(chat_history) > max_history_messages
    /\ appended[1] # appended[Len(appended) - max_history_messages + 1]

\* C3: when the completion call of process_message raises, the caller gets the
\* wrapped error, the window is what it was before the call and no background
\* thread was started for the exchange
C3_FailedCompletion ==
    (Completed /\ result.op = "process_message" /\ LastCompletion.raised)
    => /\ result.raised
       /\ result.error = "Failed to process message: timeout"
       /\ chat_history = result.entry.chat_history
       /\ started = result.entry.started

\* a text exchange whose completion raised, made with turns already in the window
\* and background threads already started
C3_Witness ==
    /\ Completed /\ result.op = "process_message" /\ LastCompletion.raised
    /\ result.entry.chat_history # <<>>
    /\ result.entry.started > 0

\* C4: when the completion call raises, the window, the profile collection, the
\* profile cache (once loaded) and the background writes started are what they were
\* before the exchange
C4_NoPartialMutation ==
    (Completed /\ LastCompletion.raised)
    => /\ chat_history = result.entry.chat_history
       /\ user_info_docs = result.entry.user_info_docs
       /\ (result.entry.user_info_cache # <<>>
           => user_info_cache = result.entry.user_info_cache)
       /\ started = result.entry.started

\* an exchange that stated a name failed at its completion call and left a profile
\* document behind
C4_Trace ==
    /\ Completed /\ LastCompletion.raised /\ result.op = "process_message"
    /\ result.message = "Call me Sam."
    /\ user_info_docs # result.entry.user_info_docs

\* C5: when the completion call returns an empty or whitespace-only reply, on the
\* text path or the vision path, the reply returned, recorded in the window and
\* handed to the background write is the fallback string, and the exchange succeeds
C5_BlankReplyFallback ==
    (Completed /\ ~LastCompletion.raised /\ Blank(LastCompletion.content))
    => /\ ~result.raised
       /\ result.ret = fallback_reply
       /\ started = result.entry.started + 1
       /\ chat_history # <<>>
       /\ chat_history[Len(chat_history)] = AIMessage(fallback_reply)
       /\ \E t \in BagToSet(threads) : t.reply = fallback_reply

\* a vision exchange returned the whitespace the completion gave it
C5_BlankVisionReply ==
    /\ Completed /\ ~LastCompletion.raised /\ LastCompletion.path = "vision"
    /\ Blank(LastCompletion.content)
    /\ result.ret = LastCompletion.content

\* the completion calls of the call that went through the text path
TextCompletions == {i \in 1..Len(result.completions) : result.completions[i].path = "text"}

\* C6: when images are attached and the vision path raises, process_message runs
\* once, with the note before the message; one reply is returned and the window
\* gains the one pair of the retry, or the retry's completion raised and the caller
\* gets the error with the window as it was
C6_OneTextRetry ==
    (Ended /\ result.op = "process_message_with_media" /\ "vision" \in result.faults)
    => /\ result.text_calls = 1
       /\ Cardinality(TextCompletions) = 1
       /\ TextCompletions = {Len(result.completions)}
       /\ result.raised = LastCompletion.raised
       /\ IF result.raised
          THEN /\ chat_history = result.entry.chat_history
               /\ started = result.entry.started
          ELSE /\ result.ret # ""
               /\ chat_history =
                     Trim(result.entry.chat_history
                          \o <<HumanMessage("[User attached " \o ToStr(Len(result.images))
                                            \o " image(s). Analyzing text content...]\n\n"
                                            \o result.message),
                               AIMessage(result.ret)>>)
               /\ started = result.entry.started + 1

\* the vision completion was called and raised, and the retry returned a reply
C6_Witness ==
    /\ Ended /\ result.op = "process_message_with_media" /\ "vision" \in result.faults
    /\ ~result.raised
    /\ Len(result.completions) = 2
    /\ result.completions[1].path = "vision" /\ result.completions[1].raised

\* C7: _retrieve_relevant_memory returns "" when the construction of the store or
\* the search raised and when the search found nothing, and otherwise the header
\* followed by the documents in the order the search returned them; what a store
\* call raises never ends the exchange
C7_MemoryBlock ==
    LET env == frame.mem
        ret == frame.relevant_memory
        docs == env.results
    IN /\ (env.init # "ok" \/ env.search = "raise" \/ docs = <<>>) => ret = ""
       /\ (env.init = "ok" /\ env.search = "ok" /\ Len(docs) = 1)
          => ret = "\n\n--- Relevant Past Conversations ---\n" \o docs[1]
       /\ (env.init = "ok" /\ env.search = "ok" /\ Len(docs) = 2)
          => ret = "\n\n--- Relevant Past Conversations ---\n" \o docs[1]
                   \o "\n\n---\n" \o docs[2]
       /\ Len(docs) <= 2
       /\ (Ended /\ result.raised) => ~Contains(result.error, store_error)

\* the search returned two documents and the block holds them in that order
C7_Witness ==
    /\ frame.pc = "completion"
    /\ Len(frame.mem.results) = 2
    /\ frame.mem.results[1] = "User: bye\nAssistant: ok"

\* the search of a constructed store returned nothing
C7_WitnessEmpty ==
    /\ frame.pc = "completion"
    /\ vectorstore # 0 /\ frame.mem.search = "ok" /\ frame.mem.results = <<>>

\* C8: whatever store calls fail, process_message reaches its completion call, and
\* when that call returns, the caller gets the reply and the window gains the pair
\* of the exchange
C8_MemoryFailuresTolerated ==
    (Ended /\ result.op = "process_message")
    => /\ Len(result.completions) = 1
       /\ ~LastCompletion.raised
          => /\ ~result.raised
             /\ result.ret = (IF Blank(LastCompletion.content) THEN fallback_reply
                              ELSE LastCompletion.content)
             /\ chat_history =
                   Trim(result.entry.chat_history
                        \o <<HumanMessage(result.message), AIMessage(result.ret)>>)

\* the construction of the store, the profile write and the episodic search all
\* failed in an exchange that returned its reply
C8_Witness ==
    /\ Ended /\ result.op = "process_message" /\ ~result.raised
    /\ {"construct", "profile_add", "memory_search"} \subseteq result.faults

\* C9: _store_user_info called with an empty dict adds no profile document, leaves
\* the cache as it is and does not construct the store
C9_EmptyWriteIsNoOp ==
    [][(result'.op = "_store_user_info" /\ result'.info = EmptyDict /\ n_calls' # n_calls)
       => UNCHANGED <<user_info_docs, user_info_cache, user_info_loaded, embeddings,
                      vectorstore, user_info_store, profile_searches>>]_vars

\* _store_user_info({}) has returned in a session whose cache holds a name and whose
\* store is not constructed
C9_Witness ==
    /\ result.op = "_store_user_info" /\ result.info = EmptyDict
    /\ user_info_cache # <<>> /\ get_name(user_info_cache[1]) # ""
    /\ vectorstore = 0

\* C10: a session issues at most one similarity search against the profile
\* collection, also when the first search or the construction failed; every call
\* of _load_user_info returns the cache
C10_OneProfileSearch ==
    /\ profile_searches <= 1
    /\ user_info_loaded => (frame.pc = "facts" => frame.user_info = user_info_cache)
    /\ frame.pc \in {"facts", "memory", "vision", "completion"} => user_info_loaded

\* _load_user_info has returned a second time after its first search raised
C10_Witness ==
    /\ frame.pc = "facts" /\ frame.op = "process_message_with_media"
    /\ frame.fn = "process_message"
    /\ "profile_search" \in frame.faults
    /\ profile_searches = 1

\* C11: for a trigger phrase followed by name tokens and then the end of the text
\* or punctuation, _extract_user_info returns the name tokens as written and nothing
\* of the trigger phrase; for a message without a trigger phrase it returns {}
C11_ExtractsStatedName ==
    result.op = "_extract_user_info"
    => /\ \A c \in ExtractCases :
            result.message = CaseMessage(c) => result.info = NameDict(c.name)
       /\ result.message \in Untriggered => result.info = EmptyDict

\* "My name is Maadhu." gave a name that holds a word of the trigger phrase
C11_Trace ==
    /\ result.op = "_extract_user_info"
    /\ result.message = "My name is Maadhu."
    /\ result.info = NameDict("is Maadhu")

\* a text exchange with "Call me Sam. What's 2+2?" has returned: the window was empty
\* when it began and no store call failed
SamExchange ==
    /\ Ended /\ result.op = "process_message" /\ ~result.raised
    /\ result.message = "Call me Sam. What's 2+2?"
    /\ result.entry.chat_history = <<>>
    /\ result.faults = {}

\* C12: the exchange "Call me Sam. What's 2+2?" on an empty window persists a profile
\* document holding the name Sam, gives the completion a prompt with the name-binding
\* instruction for Sam, calls the completion once and leaves the window with the
\* human message followed by the reply
C12_NameExchange ==
    SamExchange
    => /\ CopiesIn("name: Sam", user_info_docs)
            = CopiesIn("name: Sam", result.entry.user_info_docs) + 1
       /\ Len(result.completions) = 1
       /\ Contains(LastCompletion.prompt.system, "The user's name is Sam.")
       /\ chat_history = <<HumanMessage(result.message), AIMessage(result.ret)>>

\* the exchange persisted and bound the name "me Sam"
C12_Trace ==
    /\ SamExchange
    /\ CopiesIn("name: me Sam", user_info_docs) = 1
    /\ Contains(LastCompletion.prompt.system, "The user's name is me Sam.")
    /\ Len(result.completions) = 1
    /\ chat_history = <<HumanMessage(result.message), AIMessage(result.ret)>>

\* C13: an exchange returns its reply with its background thread started and not
\* yet run, and no step of a background thread, whether it writes the document or
\* fails, changes what the caller of an exchange got or the call in progress
C13_WriteDetached ==
    [][/\ (frame.pc # "idle" /\ frame'.pc = "idle" /\ ~result'.raised)
          => /\ threads' = BagAdd(threads, [message |-> frame.message, reply |-> result'.ret])
             /\ started' = started + 1
             /\ memory_docs' = memory_docs
       /\ (memory_docs' # memory_docs \/ BagCardinality(threads') < BagCardinality(threads))
          => UNCHANGED <<result, frame, chat_history>>]_vars

\* an exchange returned its reply and its background thread then ran without
\* writing the document
C13_Witness ==
    /\ Ended /\ ~result.raised
    /\ started = 1 /\ threads = EmptyBag
    /\ memory_docs = result.entry.memory_docs
    /\ vectorstore # 0

\* the request being handled or answered last
ChatRequest == http.request[1]

\* no text and no usable attachment: no file with extracted content, no image that
\* was processed, no audio transcript
Unusable(request) ==
    /\ strip(request.message) = ""
    /\ \A i \in 1..Len(request.files) : request.files[i].content = ""
    /\ \A i \in 1..Len(request.images) : request.images[i] # "ok"
    /\ strip(request.audio) = ""

\* C14: a request with no text and no usable attachment is answered 400 and the
\* agent is not called for it
C14_EmptyRejected ==
    (agent /\ http.pc # "none" /\ ~ChatRequest.malformed /\ Unusable(ChatRequest))
    => /\ http.pc = "done"
       /\ http.status = 400
       /\ http.reply = <<"I need a message, file, image, or audio to respond to.">>

\* the agent is called with the header of the file list alone, for a request whose
\* only attachment is a file nothing was extracted from
C14_Trace ==
    /\ http.pc = "waiting"
    /\ Unusable(ChatRequest)
    /\ ChatRequest.files # <<>> /\ ChatRequest.images = <<>>
    /\ frame.op = "process_message"
    /\ frame.arg = "--- Uploaded Files ---"

\* C15: every request is answered with a reply string and a status of 200, 400 or
\* 500: the agent's reply with 200, a worded error otherwise, also when the agent is
\* None or its call raised; no exception leaves the handler
C15_AlwaysAReply ==
    /\ ~http.escaped
    /\ http.pc = "done"
       => /\ Len(http.reply) = 1
          /\ http.status \in {200, 400, 500}
          /\ http.status = 200 => (~result.raised /\ http.reply[1] = result.ret)
          /\ http.status # 200 => http.reply[1] # ""
          /\ ~agent => http.status = 500
          /\ (agent /\ ~ChatRequest.malformed /\ strip(full_message(ChatRequest)) # "")
             => /\ Ended
                /\ result.raised
                   => /\ http.status = 500
                      /\ Contains(http.reply[1], result.error)

\* the vision path and its text retry both raised and the request was answered 500
C15_Witness ==
    /\ http.pc = "done" /\ http.status = 500
    /\ Ended /\ result.raised /\ result.op = "process_message_with_media"
    /\ result.error = "Failed to process message with media: Failed to process message: timeout"

\* the completion calls of the call in progress after a step, whether the step ended it
CompletionsAfter == IF frame'.pc = "idle" THEN result'.completions ELSE frame'.completions

\* C16: every prompt the vision path sends is made of what the text path would send
\* from the same state for the same message: the system message (the persona, the
\* name binding when a name is known, the memory block when there is one), then the
\* recent turns of the window, then the human turn, whether or not a name is known
C16_VisionPromptInputs ==
    [][(frame.pc = "vision" /\ Len(CompletionsAfter) > Len(frame.completions))
       => LET sent == CompletionsAfter[Len(CompletionsAfter)].prompt
              text == TextPrompt(St, frame)
          IN /\ Len(sent) = Len(text.history) + 2
             /\ sent[1].type = "system"
             /\ sent[1].content = system_message(frame.user_info[1], frame.relevant_memory)
             /\ SubSeq(sent, 2, Len(sent) - 1) = text.history
             /\ sent[Len(sent)].type = "human"
             /\ sent[Len(sent)].content = text.input]_vars

\* a vision call was made for a user whose name is not known, and what it was sent
\* begins with the human turn: no system message, so no persona and no memory block
C16_Trace ==
    /\ Ended /\ result.op = "process_message_with_media" /\ ~result.raised
    /\ Len(result.completions) = 1
    /\ LastCompletion.path = "vision"
    /\ get_name(user_info_cache[1]) = ""
    /\ LastCompletion.prompt[1].type = "human"
    /\ result.entry.memory_docs # EmptyBag

\* the threads that ran a statement of _load_user_info, by the mark it leaves
Marked(mark) == {t \in Loaders : loaders[t][mark]}

\* C17: when two callers race in _load_user_info the first wins: one of them at most
\* assigns the cache, one at most populates it and one at most sets the loaded flag,
\* so that no second caller replaces the dict the first one populated
C17_FirstCallerWins ==
    /\ Cardinality(Marked("assigned")) <= 1
    /\ Cardinality(Marked("populated")) <= 1
    /\ Cardinality(Marked("set")) <= 1

\* both racers found the flag unset: the first loaded the name and returned, after
\* which the second assigned a new empty dict, searched and populated again and set
\* the flag a second time
C17_Trace ==
    /\ \A t \in Loaders : loaders[t].pc = "done" /\ loaders[t].set /\ loaders[t].populated
    /\ profile_searches = 2
    /\ loaders[1].ret # <<EmptyDict>>
    /\ embeddings = 1

\* C18: the embedding client is constructed at most once in a session, whatever the
\* interleaving of the background writes with the memory operations of the requests
\* and whatever construction attempt failed before, and the collections once
\* constructed stay the instances every later call uses
C18_ConstructedOnce ==
    /\ embeddings <= 1
    /\ user_info_store # 0 => vectorstore # 0

\* the first attempt constructed the embedding client and failed on the collection;
\* a later call of the same exchange found self.vectorstore None and constructed a
\* second embedding client
C18_Trace ==
    /\ Ended /\ ~result.raised
    /\ "construct" \in result.faults
    /\ embeddings = 2
    /\ vectorstore # 0 /\ user_info_store # 0

\* the place of a step in the body of a method: the profile read, the facts, the
\* retrieval, then the prompt and the completion
Rank(pc) ==
    CASE pc = "load" -> 1
      [] pc = "facts" -> 2
      [] pc = "memory" -> 3
      [] pc \in {"completion", "vision"} -> 4
      [] OTHER -> 0

Ran == {t \in BagToSet(threads) : CopiesIn(t, threads') < CopiesIn(t, threads)}

\* C20: a step of a background thread leaves the window and the profile cache as they
\* are, and the document it writes is made of the message and the reply the thread
\* was started with, not of the window; the window changes only in the step of the
\* request thread that returns a reply
C20_WindowOwnedByForeground ==
    [][/\ Ran # {}
          => /\ UNCHANGED <<chat_history, appended, user_info_cache, user_info_loaded>>
             /\ \E t \in Ran :
                  memory_docs' \in {memory_docs,
                                    BagAdd(memory_docs, "User: " \o t.message
                                                        \o "\nAssistant: " \o t.reply)}
       /\ chat_history' # chat_history
          => /\ Ran = {}
             /\ frame.pc \in {"completion", "vision"}
             /\ ~result'.raised]_vars

\* a background thread wrote the document of its exchange while the window held the
\* two turns of that exchange, which are still there
C20_Witness ==
    /\ Ended /\ ~result.raised
    /\ started = 1 /\ threads = EmptyBag
    /\ BagCardinality(memory_docs) = BagCardinality(result.entry.memory_docs) + 1
    /\ Len(chat_history) = 2
    /\ chat_history[2].content = result.ret

\* the name of the first document, nearest first, that holds a "name:" line with a
\* value, as a dict; the empty dict when no document holds one
RECURSIVE FirstMatch(_)
FirstMatch(results) ==
    IF results = <<>> THEN EmptyDict
    ELSE IF LinesName(split_lines(Head(results))) # ""
         THEN NameDict(LinesName(split_lines(Head(results))))
         ELSE FirstMatch(Tail(results))

\* C21: when _load_user_info populates the empty cache from the documents the
\* profile search returned, the cache holds the name of the first match, nearest
\* document first and lines in order; no later document replaces it
C21_FirstMatchKept ==
    [][\A t \in Loaders :
         (loaders[t].pc = "populate" /\ loaders'[t].pc = "flag"
          /\ user_info_cache = <<EmptyDict>>)
         => user_info_cache' = <<FirstMatch(loaders[t].results)>>]_vars

\* the search returned the document of Al before the document of Bo, and the cache
\* holds Bo, the name of the last document
C21_Trace ==
    \E t \in Loaders :
        /\ loaders[t].pc = "flag" /\ loaders[t].populated
        /\ loaders[t].results = <<"name: Al", "topic\nName: Bo">>
        /\ Marked("assigned") = {t}
        /\ user_info_cache = <<NameDict("Bo")>>

\* C22: the completion step of process_message gives the completion call a prompt
\* made of the persona, then the name binding if and only if the profile holds a
\* name, then the memory block as it was retrieved if and only if it is not empty,
\* then the recent turns of the window oldest first, the exchange in progress not
\* among them, then the message as the last, human, turn
C22_PromptAssembly ==
    [][frame.pc = "completion" /\ frame' # frame
       => /\ Len(CompletionsAfter) = Len(frame.completions) + 1
          /\ LET sent == CompletionsAfter[Len(CompletionsAfter)].prompt
                 name == get_name(frame.user_info[1])
                 n == Min(max_history_messages, Len(chat_history))
             IN /\ sent.system = persona
                                 \o (IF name # "" THEN name_binding(name) ELSE "")
                                 \o (IF frame.relevant_memory # ""
                                     THEN "\n\n" \o frame.relevant_memory ELSE "")
                /\ sent.history = SubSeq(chat_history, Len(chat_history) - n + 1,
                                         Len(chat_history))
                /\ sent.input = frame.message]_vars

\* the memory retrieved for the second exchange held the document of the first,
\* "User: {{x}}", and the completion call was given "User: {x}" in its place
C22_Trace ==
    /\ Ended /\ ~result.raised /\ result.op = "process_message"
    /\ LastCompletion.path = "text"
    /\ Contains(LastCompletion.prompt.system, "User: {x}\nAssistant: ok")
    /\ ~Contains(LastCompletion.prompt.system, "User: {{x}}")
    /\ \A doc \in BagToSet(memory_docs) : ~Contains(doc, "User: {x}")

\* C23: the cached name is the one written last: the step of an exchange that
\* extracts the facts of its message leaves in the cache the name the message
\* yielded, whether or not the profile document could be written, and leaves the
\* cache as it was when the message yielded none; no other step changes the cache
\* once it is loaded
C23_LastWriteWins ==
    [][/\ (frame.pc = "facts" /\ frame'.pc = "memory")
          => LET extracted_info == ExtractedInfo(frame.arg)
             IN IF extracted_info # EmptyDict
                THEN user_info_cache' = <<update(user_info_cache[1], extracted_info)>>
                     /\ get_name(user_info_cache'[1]) = extracted_info["name"]
                ELSE user_info_cache' = user_info_cache
       /\ (user_info_cache' # user_info_cache /\ user_info_loaded)
          => frame.pc = "facts"]_vars

\* the profile collection held other names, the message yielded a name, its document
\* could not be written, and the exchange ended with the name of the message in the
\* cache
C23_Witness ==
    /\ Ended /\ ~result.raised
    /\ result.entry.user_info_cache = <<>>
    /\ user_info_docs = result.entry.user_info_docs
    /\ user_info_docs # EmptyBag
    /\ "profile_add" \in result.faults
    /\ ExtractedInfo(result.message) # EmptyDict
    /\ user_info_cache = <<ExtractedInfo(result.message)>>

\* C24: the episodic collection only grows, by the one document "User: <message>\n
\* Assistant: <reply>" of the thread that ran, a thread being started by each
\* exchange that returns a reply; and with the store available and the background
\* threads scheduled fairly every thread started has run in the end
C24_OneDocumentPerExchange ==
    /\ [][/\ memory_docs' # memory_docs => Cardinality(Ran) = 1
          /\ \A t \in Ran :
               /\ threads' = BagRemove(threads, t)
               /\ memory_docs' = BagAdd(memory_docs, "User: " \o t.message
                                                     \o "\nAssistant: " \o t.reply)
          /\ (frame.pc # "idle" /\ frame'.pc = "idle" /\ ~result'.raised)
             => threads' = BagAdd(threads, [message |-> frame.message,
                                            reply |-> result'.ret])]_vars
    /\ (threads # EmptyBag) ~> (threads = EmptyBag)

\* two exchanges returned a reply and the collection holds the two documents it
\* held before them and one more for each
C24_Witness ==
    /\ Ended /\ ~result.raised
    /\ started = 2 /\ threads = EmptyBag
    /\ BagCardinality(memory_docs) = 4
    /\ CopiesIn("User: hi\nAssistant: " \o result.ret, memory_docs) >= 1

\* C25: a call of process_message_with_media writes at most one profile document
\* and retrieves the episodic memory at most once, whether the vision path answers,
\* fails and falls back to the text path, or is not taken for want of images: the
\* retrieval of the call is the one of its own prologue
C25_OnceAnExchange ==
    [][frame.op = "process_message_with_media"
       => /\ BagCardinality(user_info_docs')
                <= BagCardinality(frame.entry.user_info_docs) + 1
          /\ (frame.pc = "memory" /\ frame' # frame)
             => frame.fn = "process_message_with_media"]_vars

\* process_message_with_media("Call me Sam.") without images returned a reply, the
\* profile collection holding two more documents than when it was called
C25_Trace ==
    /\ Ended /\ ~result.raised /\ result.op = "process_message_with_media"
    /\ result.images = <<>>
    /\ result.text_calls = 1
    /\ BagCardinality(user_info_docs) = BagCardinality(result.entry.user_info_docs) + 2

\* C26: the two collections are constructed together or not at all: in every state,
\* also after a constructor raised, self.vectorstore is set if and only if
\* self.user_info_store is
C26_AllOrNothing == (vectorstore # 0) <=> (user_info_store # 0)

\* the constructor of the profile collection raised after the episodic one was set:
\* the exchange that named the user returned with its background thread started, no
\* profile document was written and no failure of the write was met
C26_Trace ==
    /\ Ended /\ ~result.raised
    /\ vectorstore # 0 /\ user_info_store = 0
    /\ ExtractedInfo(result.message) # EmptyDict
    /\ user_info_docs = result.entry.user_info_docs
    /\ "profile_add" \notin result.faults
    /\ started = 1

\* the turns of a sequence come in pairs, a human turn and then an assistant turn
Paired(messages) ==
    /\ Len(messages) % 2 = 0
    /\ \A i \in 1..Len(messages) :
         messages[i].type = IF i % 2 = 1 THEN "human" ELSE "ai"

\* C27: with the exchanges run one at a time the window always holds whole pairs, a
\* human turn followed by the reply given to it: it is the end of the sequence of
\* the pairs appended, cut between two pairs, and when an exchange has just returned
\* its last pair is the message answered and the reply returned
C27_WholePairs ==
    /\ Paired(chat_history)
    /\ Paired(appended)
    /\ chat_history = LastN(appended, Len(chat_history))
    /\ (Ended /\ ~result.raised)
       => /\ Len(chat_history) >= 2
          /\ chat_history[Len(chat_history)] = AIMessage(result.ret)
          /\ chat_history[Len(chat_history) - 1]
                \in {HumanMessage(result.message),
                     HumanMessage(images_note(result.images) \o result.message)}

\* the window was trimmed to its capacity, two turns being dropped, and begins with
\* a human turn
C27_Witness ==
    /\ Ended /\ ~result.raised
    /\ Len(appended) = max_history_messages + 2
    /\ Len(chat_history) = max_history_messages
    /\ chat_history[1].type = "human"
    /\ result.op = "process_message"

\* the two turns request thread t appends
WriterPair(t) == <<HumanMessage(writers[t].message), AIMessage(writers[t].reply)>>

\* C28: when two requests have updated the window at the same time and both have
\* returned, the window ends with the pair of the one and then the pair of the
\* other, each reply right after its own message, no turn of either lost
C28_BothPairsKept ==
    (\A t \in Writers : writers[t].pc = "done")
    => /\ Len(chat_history) >= 4
       /\ \E t, u \in Writers :
            /\ t # u
            /\ LastN(chat_history, 4) = WriterPair(t) \o WriterPair(u)

\* both requests returned; the window was replaced by the last turns one thread had
\* sliced before the other appended its reply, and the reply "second" is not in it
C28_Trace ==
    /\ \A t \in Writers : writers[t].pc = "done"
    /\ Len(chat_history) = max_history_messages
    /\ \A i \in 1..Len(chat_history) : chat_history[i] # AIMessage("second")
    /\ \E i \in 1..Len(chat_history) : chat_history[i] = HumanMessage("two")
====
